---------------------------- MODULE Spec2Model ----------------------------
(***************************************************************************)
(* Model of the tiny-jwt-auth-core gateway: the token service of           *)
(* src/src/JWTToken.py (create_access_token, verify_token over             *)
(* python-jose), the user store of src/src/mydb.py, and the guard, login   *)
(* and catch-all proxy handlers of src/src/main.py (the login handler and  *)
(* guard of src/src/jwt_auth_router.py are line-for-line copies).          *)
(*                                                                         *)
(* Three specifications: SpecToken, the token service and the guard as     *)
(* functions of a token; Spec, the gateway serving two requests at once;   *)
(* SpecForward, one authenticated request inside proxy_to_backend, with    *)
(* the request it builds, the waits of the HTTP client and the chunks of   *)
(* the backend's body (SpecForwardFair adds the fairness of the clock and  *)
(* of the event loop).                                                     *)
(*                                                                         *)
(* Time is counted in ticks, SubSec ticks to the second, so that the       *)
(* truncation of datetimes to whole seconds by jwt.encode and by the exp   *)
(* check of jwt.decode is visible.                                         *)
(***************************************************************************)
EXTENDS Integers, Sequences, FiniteSets

VARIABLES
    now,        \* the wall clock (datetime.now(timezone.utc)), in ticks
    issued,     \* history of create_access_token calls: [token, username, t0, delta]
    last,       \* the verify_token call made at the current instant, if any,
                \* with the guard's answer for the same token
    db,         \* the TinyDB table behind MyDB: a sequence of user records
    req,        \* the request slots of the ASGI server: ReqIds -> request record
    fwd         \* one authenticated request inside proxy_to_backend, in detail

vars == <<now, issued, last, db, req, fwd>>

---------------------------------------------------------------------------
(* Bounds of the model *)

\* ticks per second: the sub-second resolution of the clock
SubSec == 2
\* instants are observed at offsets 0..MaxTick from the minute marks in Marks
MaxTick == 3
\* number of records the user table may hold
MaxUsers == 1
\* number of chunks a backend response body may have
MaxChunks == 2
\* seconds between two observations of a wait on the backend
WaitStep == 10

(* Program constants *)

\* JWTToken.__init__: access_token_expire_minutes default
ACCESS_TOKEN_EXPIRE_MINUTES == 30
\* proxy_to_backend: timeout=30, the seconds httpx waits in one wait
BACKEND_TIMEOUT == 30
\* proxy_to_backend: the port written in backend_url
BACKEND_URL_PORT == 6000
SecondsPerMinute == 60

MinuteTicks == SecondsPerMinute * SubSec

\* minute marks around which the clock is observed: issuance, the spec's
\* 29 and 31 minute scenario and the default expiry itself
Marks == {0, ACCESS_TOKEN_EXPIRE_MINUTES - 1, ACCESS_TOKEN_EXPIRE_MINUTES,
          ACCESS_TOKEN_EXPIRE_MINUTES + 1}

Instants == {m * MinuteTicks + j : m \in Marks, j \in 0..MaxTick}

IssueInstants == 0..MaxTick

\* the latest instant observed
LastInstant == (ACCESS_TOKEN_EXPIRE_MINUTES + 1) * MinuteTicks + MaxTick

---------------------------------------------------------------------------
(* Values *)

\* Python's None, and an optional value
None == <<>>
Some(x) == <<x>>

\* usernames that appear in requests; "" is the empty string
Usernames == {"alice", "bob"}
Subjects == Usernames \cup {""}

\* secret.ini [security] secret_key, and a key the holder of the secret does not use
SECRET_KEY == "secret"
OtherKey == "guess"

\* JWTToken.__init__: algorithm default
ALGORITHM == "HS256"
Algorithms == {"HS256", "HS384", "none"}

\* expires_delta arguments, in ticks: None, zero, a tick or a second either way
Deltas == {None, Some(0), Some(1), Some(SubSec), Some(0 - 1), Some(0 - SubSec),
           Some(MinuteTicks)}

---------------------------------------------------------------------------
(* JSON claim values.  A claim is absent, a string, a number or null. *)

Absent == [kind |-> "absent", s |-> "", n |-> 0]
Str(x) == [kind |-> "str", s |-> x, n |-> 0]
Num(x) == [kind |-> "int", s |-> "", n |-> x]
Null == [kind |-> "null", s |-> "", n |-> 0]

\* Python truthiness of payload.get("sub"): None, "" and 0 are falsy
Truthy(v) ==
    CASE v.kind = "absent" -> FALSE
      [] v.kind = "str" -> v.s # ""
      [] OTHER -> v.n # 0

---------------------------------------------------------------------------
(* The compact JWS serialization, as python-jose produces and reads it.    *)
(* A token is header.claims.signature; the signature is the HMAC of the    *)
(* first two segments as text.  The MAC is modelled as an ideal one:       *)
(* injective in key and signing input.  The signature segment is the       *)
(* base64url text of the 32 MAC bytes: 43 characters, the last of which    *)
(* carries two bits that encode nothing; "tail" is the value of those two  *)
(* bits.                                                                   *)

\* timegm(expire.utctimetuple()): a datetime claim becomes whole seconds
ToEpochSeconds(t) == t \div SubSec

Hmac(key, alg, signing_input) == <<key, alg, signing_input>>

SigTail == 0..3

\* base64url_encode: the unused bits are written as zero
B64UrlEncode(mac) == [mac |-> mac, tail |-> 0]

\* base64url_decode (base64.urlsafe_b64decode): the unused bits are dropped
B64UrlDecode(seg) == seg.mac

\* jwt.encode(claims, key, algorithm)
JwtEncode(claims, key, alg) ==
    [hdr |-> alg, claims |-> claims,
     sig |-> B64UrlEncode(Hmac(key, alg, <<alg, claims>>))]


---------------------------------------------------------------------------
(* JWTToken.create_access_token *)

\* "if expires_delta:" is Python truthiness: None and timedelta(0) are falsy
DeltaTruthy(expires_delta) == expires_delta # None /\ expires_delta[1] # 0

\* the datetime "expire" of lines 37-40, in ticks, for a call at time t
Expire(expires_delta, t) ==
    IF DeltaTruthy(expires_delta)
    THEN t + expires_delta[1]
    ELSE t + ACCESS_TOKEN_EXPIRE_MINUTES * MinuteTicks

\* a slip: the subject written under another claim name than "sub"
create_access_token_OtherClaim(username, expires_delta, t) ==
    LET to_encode == [sub |-> Absent,
                      exp |-> Num(ToEpochSeconds(Expire(expires_delta, t)))]
    IN JwtEncode(to_encode, SECRET_KEY, ALGORITHM)

create_access_token(username, expires_delta, t) ==
    LET to_encode == [sub |-> Str(username),
                      exp |-> Num(ToEpochSeconds(Expire(expires_delta, t)))]
    IN JwtEncode(to_encode, SECRET_KEY, ALGORITHM)

---------------------------------------------------------------------------
(* jwt.decode(token, key, algorithms=[algorithm], options) of python-jose, *)
(* in the order the library works: the header's alg must be one of the     *)
(* allowed algorithms, the decoded signature must equal the HMAC of the    *)
(* signing input, then the claims are validated: exp (int(exp) < now       *)
(* raises ExpiredSignatureError, a non-numeric string is a JWTClaimsError, *)
(* null is a TypeError, which is no JWTError), then sub (a string when     *)
(* present).                                                               *)

\* a slip: options={"verify_signature": False}
SignatureOk_Unverified(token, key) == TRUE

SignatureOk(token, key) ==
    B64UrlDecode(token.sig) = Hmac(key, token.hdr, <<token.hdr, token.claims>>)

\* _validate_exp: "if exp < (now - leeway)" with leeway 0, both whole seconds
ExpExpired(exp, t) == exp < ToEpochSeconds(t)

\* a slip: the claims are validated before the signature is checked
JwtDecode_ClaimsFirst(token, key, algorithm, t) ==
    IF token.hdr = "" THEN "JWTError: Not enough segments"
    ELSE IF token.claims.exp.kind = "int" /\ ExpExpired(token.claims.exp.n, t)
         THEN "ExpiredSignatureError"
    ELSE IF token.hdr # algorithm THEN "JWTError: alg not allowed"
    ELSE IF ~SignatureOk(token, key) THEN "JWTError: Signature verification failed"
    ELSE IF token.claims.exp.kind = "null" THEN "TypeError"
    ELSE IF token.claims.exp.kind = "str"
         THEN "JWTClaimsError: exp must be an integer"
    ELSE IF token.claims.sub.kind \notin {"absent", "str"}
         THEN "JWTClaimsError: Subject must be a string"
    ELSE "ok"

\* the outcome of jwt.decode: "ok", or the exception it raises
JwtDecode(token, key, algorithm, t) ==
    IF token.hdr = "" THEN "JWTError: Not enough segments"
    ELSE IF token.hdr # algorithm THEN "JWTError: alg not allowed"
    ELSE IF ~SignatureOk(token, key) THEN "JWTError: Signature verification failed"
    ELSE IF token.claims.exp.kind = "null" THEN "TypeError"
    ELSE IF token.claims.exp.kind = "str"
         THEN "JWTClaimsError: exp must be an integer"
    ELSE IF token.claims.exp.kind = "int" /\ ExpExpired(token.claims.exp.n, t)
         THEN "ExpiredSignatureError"
    ELSE IF token.claims.sub.kind \notin {"absent", "str"}
         THEN "JWTClaimsError: Subject must be a string"
    ELSE "ok"

\* every exception class above but TypeError derives from JWTError
IsJWTError(outcome) == outcome \notin {"ok", "TypeError"}

\* a slip: "if username:" left out, whatever payload.get("sub") gave is
\* returned
verify_token_NoSubjectCheck(token, t) ==
    LET outcome == JwtDecode(token, SECRET_KEY, ALGORITHM, t)
        username == token.claims.sub
    IN IF outcome = "ok"
       THEN [result |-> Some(username.s), reason |-> "ok", raised |-> FALSE]
       ELSE [result |-> None, reason |-> outcome, raised |-> ~IsJWTError(outcome)]

(* JWTToken.verify_token: [result, reason, raised].  result is the value   *)
(* returned (Some(username) or None); reason is what is logged; raised     *)
(* says an exception left the function.                                    *)
verify_token(token, t) ==
    LET outcome == JwtDecode(token, SECRET_KEY, ALGORITHM, t)
        username == token.claims.sub
    IN IF outcome = "ok"
       THEN IF Truthy(username)
            THEN [result |-> Some(username.s), reason |-> "ok", raised |-> FALSE]
            ELSE [result |-> None, reason |-> "'sub' claim is missing",
                  raised |-> FALSE]
       ELSE [result |-> None, reason |-> outcome, raised |-> ~IsJWTError(outcome)]

---------------------------------------------------------------------------
(* Token strings a caller can present.  Without the secret: the token    *)
(* this service issued, edits of it, and tokens signed under another key.  *)
(* A holder of the secret can mint any claims.                             *)

\* the edits of one token: each changes one segment and keeps the others
Edits(token) ==
    {[token EXCEPT !.sig.tail = k] : k \in SigTail}
        \cup {[token EXCEPT !.sig.mac =
                    Hmac(OtherKey, token.hdr, <<token.hdr, token.claims>>)]}
        \cup {[token EXCEPT !.hdr = a] : a \in Algorithms}
        \cup {[token EXCEPT !.claims.sub = Str(s)] : s \in Subjects}
        \cup {[token EXCEPT !.claims.exp = Num(ToEpochSeconds(LastInstant))]}

\* claims this service never writes: a missing, empty or non-string sub,
\* a missing, null, non-numeric, past or present exp
OddClaims(t) ==
    {[sub |-> s, exp |-> Num(ToEpochSeconds(t) + 1)] :
        s \in {Absent, Str(""), Num(7)}}
        \cup {[sub |-> Str("alice"), exp |-> e] :
                e \in {Absent, Null, Str("soon"), Num(ToEpochSeconds(t) - 1),
                       Num(ToEpochSeconds(t))}}

Forged(t) == {JwtEncode(c, OtherKey, ALGORITHM) : c \in OddClaims(t)}

Minted(t) == {JwtEncode(c, SECRET_KEY, ALGORITHM) : c \in OddClaims(t)}

IssuedTokens == IF issued = None THEN {} ELSE {issued[1].token}

\* what a caller without the secret can present at time t
Presentable(t) == UNION {Edits(b) : b \in IssuedTokens} \cup Forged(t)

\* strings that are no JWS compact serialization: the empty string, fewer
\* than three segments, segments that do not decode; no header is read
Malformed ==
    {[hdr |-> "", claims |-> [sub |-> Absent, exp |-> Absent],
      sig |-> [mac |-> <<>>, tail |-> 0]]}

\* every token string verify_token is applied to
AnyToken(t) == Presentable(t) \cup Minted(t) \cup Malformed

---------------------------------------------------------------------------
(* The user store: mydb.py.  A record is [username, password], password    *)
(* the bcrypt hash; the table is the sequence of records in insertion      *)
(* order.                                                                  *)

Passwords == {"pw1", "pw2"}

\* pwd_context.hash
Hash(plain) == <<"bcrypt", plain>>

\* the records the management script inserts
UserRecords == {[username |-> u, password |-> Hash("pw1")] : u \in Usernames}

\* MyDB.get_user: the first record whose username matches, or None
get_user(table, username) ==
    LET Matches(rec) == rec.username = username
        result == SelectSeq(table, Matches)
    IN IF result # <<>> THEN Some(result[1]) ELSE None

\* verify_password: pwd_context.verify(plain_password, hashed_password)
verify_password(plain_password, hashed_password) ==
    hashed_password = Hash(plain_password)

---------------------------------------------------------------------------
(* HTTP responses.  An HTTPException becomes status, {"detail": detail}    *)
(* and headers; a login success carries access_token and token_type; a     *)
(* proxied response carries the backend's status and content.              *)

HTTPException(status_code, detail, headers) ==
    [status |-> status_code, detail |-> detail, headers |-> headers,
     access_token |-> None, token_type |-> "", content |-> ""]

WWWAuthenticate == {<<"WWW-Authenticate", "Bearer">>}

\* Starlette's answer to an exception no handler catches
ServerError == HTTPException(500, "Internal Server Error", {})

---------------------------------------------------------------------------
(* The request slots *)

\* two slots: a request and a second one handled concurrently with it
ReqIds == {1, 2}

IdleRequest ==
    [kind |-> "idle", pc |-> "idle", auth |-> "", username |-> "",
     password |-> "", why |-> "",
     verified |-> None, principal |-> None,
     verify_calls |-> 0, lookups |-> 0, backend_calls |-> 0,
     failure |-> "", resp |-> None]

(* Authorization headers of inbound requests: absent, another scheme than  *)
(* Bearer, Bearer without a token, or Bearer with a token.                 *)
AuthHeaders(t) ==
    {[scheme |-> "absent", credentials |-> None],
     [scheme |-> "Basic", credentials |-> None],
     [scheme |-> "Bearer", credentials |-> None]}
        \cup {[scheme |-> "Bearer", credentials |-> Some(token)] :
                token \in Presentable(t)}

\* the form of a header: absent, not "Bearer <token>", or "Bearer <token>"
HeaderForm(authorization) ==
    IF authorization.scheme = "absent" THEN "absent"
    ELSE IF authorization.scheme = "Bearer" /\ authorization.credentials # None
    THEN "bearer"
    ELSE "malformed"

\* HTTPBearer(auto_error=True) raises 403 in FastAPI releases before 0.122
\* and 401 with WWW-Authenticate since; the repository pins no release
BearerErrorStatuses == {401, 403}

(* http_bearer: the credentials of a Bearer header, or the error raised *)
http_bearer(authorization, error_status) ==
    IF authorization.scheme = "Bearer" /\ authorization.credentials # None
    THEN [ok |-> TRUE, token |-> authorization.credentials, resp |-> None]
    ELSE [ok |-> FALSE, token |-> None,
          resp |-> Some(HTTPException(error_status,
                         IF authorization.scheme = "absent"
                         THEN "Not authenticated"
                         ELSE "Invalid authentication credentials",
                         IF error_status = 401 THEN WWWAuthenticate ELSE {}))]

\* a slip: the 404 is built and not raised, the handler runs without a user
get_current_user_NoRaise(token, table, t) ==
    LET v == verify_token(token, t)
        user == IF v.result = None THEN None ELSE get_user(table, v.result[1])
    IN IF v.result = None
       THEN [verified |-> None, principal |-> None, why |-> v.reason,
             verify_calls |-> 1, lookups |-> 0,
             resp |-> Some(HTTPException(401, "Invalid authentication credentials",
                                         WWWAuthenticate))]
       ELSE [verified |-> v.result, principal |-> user, why |-> "ok",
             verify_calls |-> 1, lookups |-> 1, resp |-> None]

\* a slip: the user is looked up by the unverified subject of the token
get_current_user_Unverified(token, table, t) ==
    LET v == verify_token(token, t)
        user == get_user(table, token.claims.sub.s)
    IN IF user = None
       THEN [verified |-> v.result, principal |-> None, why |-> "user not found",
             verify_calls |-> 1, lookups |-> 1,
             resp |-> Some(HTTPException(404, "User not found", {}))]
       ELSE [verified |-> v.result, principal |-> user, why |-> "ok",
             verify_calls |-> 1, lookups |-> 1, resp |-> None]

\* a slip: the 401 tells the caller why the token was rejected
get_current_user_Telling(token, table, t) ==
    LET v == verify_token(token, t)
        user == IF v.result = None THEN None ELSE get_user(table, v.result[1])
    IN IF v.raised
       THEN [verified |-> None, principal |-> None, why |-> v.reason,
             verify_calls |-> 1, lookups |-> 0, resp |-> Some(ServerError)]
       ELSE IF v.result = None
       THEN [verified |-> None, principal |-> None, why |-> v.reason,
             verify_calls |-> 1, lookups |-> 0,
             resp |-> Some(HTTPException(401, v.reason, WWWAuthenticate))]
       ELSE IF user = None
       THEN [verified |-> v.result, principal |-> None, why |-> "user not found",
             verify_calls |-> 1, lookups |-> 1,
             resp |-> Some(HTTPException(404, "User not found", {}))]
       ELSE [verified |-> v.result, principal |-> user, why |-> "ok",
             verify_calls |-> 1, lookups |-> 1, resp |-> None]

(* get_current_user (main.py 82-100): the fields of the request it sets.   *)
(* verify_token first; only a verified username is looked up.              *)
get_current_user(token, table, t) ==
    LET v == verify_token(token, t)
        user == IF v.result = None THEN None ELSE get_user(table, v.result[1])
    IN IF v.raised
       THEN [verified |-> None, principal |-> None, why |-> v.reason,
             verify_calls |-> 1, lookups |-> 0, resp |-> Some(ServerError)]
       ELSE IF v.result = None
       THEN [verified |-> None, principal |-> None, why |-> v.reason,
             verify_calls |-> 1, lookups |-> 0,
             resp |-> Some(HTTPException(401, "Invalid authentication credentials",
                                         WWWAuthenticate))]
       ELSE IF user = None
       THEN [verified |-> v.result, principal |-> None, why |-> "user not found",
             verify_calls |-> 1, lookups |-> 1,
             resp |-> Some(HTTPException(404, "User not found", {}))]
       ELSE [verified |-> v.result, principal |-> user, why |-> "ok",
             verify_calls |-> 1, lookups |-> 1, resp |-> None]

\* the forwarding record before a request
IdleForward ==
    [pc |-> "idle", method |-> "", path |-> <<>>, query |-> "", body |-> "",
     port |-> 0, out |-> None, waited |-> 0, status |-> 0, body_len |-> 0,
     received |-> 0, relayed |-> 0, failure |-> "", resp |-> None]

---------------------------------------------------------------------------
(* The clock *)

Tick ==
    /\ \E t \in Instants : t > now /\ now' = t
    /\ last' = None
    /\ UNCHANGED <<issued, db, req, fwd>>

---------------------------------------------------------------------------
(* The token service on its own: calls of create_access_token and of       *)
(* verify_token at the instants of the clock.                              *)

CreateAccessToken(username, expires_delta) ==
    /\ now \in IssueInstants
    /\ issued' = Some([token |-> create_access_token(username, expires_delta, now),
                       username |-> username, t0 |-> now, delta |-> expires_delta])
    /\ last' = None
    /\ UNCHANGED <<now, db, req, fwd>>

\* verify_token on a token string, and the guard's answer for the same
\* string
VerifyToken(token) ==
    /\ last' = Some([token |-> token, out |-> verify_token(token, now),
                     guard |-> get_current_user(token, db, now)])
    /\ UNCHANGED <<now, issued, db, req, fwd>>

TokenInit ==
    /\ now = 0
    /\ issued = None
    /\ last = None
    /\ db = <<[username |-> "alice", password |-> Hash("pw1")]>>
    /\ req = [r \in ReqIds |-> IdleRequest]
    /\ fwd = IdleForward

TokenNext ==
    \/ Tick
    \/ \E u \in Subjects, d \in Deltas : CreateAccessToken(u, d)
    \/ \E token \in AnyToken(now) : VerifyToken(token)

SpecToken == TokenInit /\ [][TokenNext]_vars

---------------------------------------------------------------------------
(* The exceptions the forwarding code can meet, with the classes each is   *)
(* an instance of (httpx's hierarchy), and what happened when it is        *)
(* raised.                                                                 *)

Exceptions ==
    {"ConnectError", "ConnectTimeout", "ReadTimeout", "ReadError",
     "InvalidURL", "RuntimeError", "ClientDisconnect"}

Classes(exc) ==
    {exc, "Exception"} \cup
    (IF exc \in {"ConnectTimeout", "ReadTimeout"}
     THEN {"TimeoutException", "TransportError", "RequestError"}
     ELSE IF exc \in {"ConnectError", "ReadError"}
     THEN {"NetworkError", "TransportError", "RequestError"}
     ELSE {})

\* raised by "await client.request(...)"
ClientRequestErrors == Exceptions \ {"ClientDisconnect"}

\* the connection to the backend could not be established
WhileConnecting(exc) == exc \in {"ConnectError", "ConnectTimeout"}

\* the timeout bound passed without the awaited event
TimedOut(exc) == exc \in {"ConnectTimeout", "ReadTimeout"}

\* a slip: the RequestError clause placed before the TimeoutException clause
ExceptionResponse_RequestErrorFirst(exc) ==
    IF "RequestError" \in Classes(exc)
    THEN HTTPException(502, "Error connecting to backend", {})
    ELSE IF "TimeoutException" \in Classes(exc)
    THEN HTTPException(504, "Backend request timed out", {})
    ELSE HTTPException(500, "Internal server error", {})

\* the except clauses of proxy_to_backend, in their order
ExceptionResponse(exc) ==
    IF "TimeoutException" \in Classes(exc)
    THEN HTTPException(504, "Backend request timed out", {})
    ELSE IF "RequestError" \in Classes(exc)
    THEN HTTPException(502, "Error connecting to backend", {})
    ELSE HTTPException(500, "Internal server error", {})

\* what the backend may answer
BackendStatuses == {200, 404}

StreamingResponse(status_code, content) ==
    [status |-> status_code, detail |-> "", headers |-> {},
     access_token |-> None, token_type |-> "", content |-> content]

---------------------------------------------------------------------------
(* The catch-all route: the dependency (http_bearer, get_current_user),    *)
(* then proxy_to_backend up to the call of the backend, then the backend's *)
(* answer.                                                                 *)

\* a slip: the resolved user is kept in one place for all requests, every
\* request in flight sees the user of the latest guard call
Guard_SharedUser(r, authorization, error_status) ==
    /\ req[r].kind = "idle"
    /\ LET b == http_bearer(authorization, error_status)
           g == get_current_user(b.token[1], db, now)
           current_user == IF b.ok THEN g.principal ELSE None
       IN req' = [q \in ReqIds |->
            IF q # r
            THEN IF req[q].pc \in {"handler", "awaiting"}
                 THEN [req[q] EXCEPT !.principal = current_user]
                 ELSE req[q]
            ELSE IF ~b.ok
            THEN [IdleRequest EXCEPT !.kind = "proxy", !.pc = "done",
                     !.auth = HeaderForm(authorization), !.why = "no credentials",
                     !.resp = b.resp]
            ELSE [IdleRequest EXCEPT !.kind = "proxy",
                     !.pc = IF g.resp = None THEN "handler" ELSE "done",
                     !.auth = HeaderForm(authorization), !.why = g.why,
                     !.verified = g.verified, !.principal = g.principal,
                     !.verify_calls = g.verify_calls, !.lookups = g.lookups,
                     !.resp = g.resp]]
    /\ UNCHANGED <<now, issued, last, db, fwd>>

Guard(r, authorization, error_status) ==
    /\ req[r].kind = "idle"
    /\ LET b == http_bearer(authorization, error_status)
           g == get_current_user(b.token[1], db, now)
       IN req' = [req EXCEPT ![r] =
            IF ~b.ok
            THEN [IdleRequest EXCEPT !.kind = "proxy", !.pc = "done",
                     !.auth = HeaderForm(authorization), !.why = "no credentials",
                     !.resp = b.resp]
            ELSE [IdleRequest EXCEPT !.kind = "proxy",
                     !.pc = IF g.resp = None THEN "handler" ELSE "done",
                     !.auth = HeaderForm(authorization), !.why = g.why,
                     !.verified = g.verified, !.principal = g.principal,
                     !.verify_calls = g.verify_calls, !.lookups = g.lookups,
                     !.resp = g.resp]]
    /\ UNCHANGED <<now, issued, last, db, fwd>>

(* proxy_to_backend, lines 133-151: BACKEND_PORT is read outside the try   *)
(* (unset, int(None) is a TypeError no clause catches); the body is read;  *)
(* then the one request to the backend is made.                            *)
Handler(r, port_set, body_ok) ==
    /\ req[r].kind = "proxy"
    /\ req[r].pc = "handler"
    /\ req' = [req EXCEPT ![r] =
            IF ~port_set
            THEN [@ EXCEPT !.pc = "done", !.failure = "TypeError",
                           !.resp = Some(ServerError)]
            ELSE IF ~body_ok
            THEN [@ EXCEPT !.pc = "done", !.failure = "ClientDisconnect",
                           !.resp = Some(ExceptionResponse("ClientDisconnect"))]
            ELSE [@ EXCEPT !.pc = "awaiting",
                           !.backend_calls = @ + 1]]
    /\ UNCHANGED <<now, issued, last, db, fwd>>

\* the backend answers: the response is returned to the client
BackendResponds(r, status_code) ==
    /\ req[r].pc = "awaiting"
    /\ req' = [req EXCEPT ![r] =
            [@ EXCEPT !.pc = "done",
                      !.resp = Some(StreamingResponse(status_code, "payload"))]]
    /\ UNCHANGED <<now, issued, last, db, fwd>>

\* a slip: the request is made again when client.request raises
BackendFails_Retry(r, exc) ==
    /\ req[r].pc = "awaiting"
    /\ req' = [req EXCEPT ![r] = [@ EXCEPT !.pc = "handler", !.failure = exc]]
    /\ UNCHANGED <<now, issued, last, db, fwd>>

\* client.request raises: the except clauses answer
BackendFails(r, exc) ==
    /\ req[r].pc = "awaiting"
    /\ req' = [req EXCEPT ![r] =
            [@ EXCEPT !.pc = "done", !.failure = exc,
                      !.resp = Some(ExceptionResponse(exc))]]
    /\ UNCHANGED <<now, issued, last, db, fwd>>

---------------------------------------------------------------------------
(* POST /auth/token: login_for_access_token (main.py 103-123).  The        *)
(* handler has no suspension point: it is one step.                        *)

InvalidCredentials ==
    HTTPException(401, "Incorrect username or password", WWWAuthenticate)

\* a slip: the missing user answered with a message of its own
login_for_access_token_Telling(username, password, table, t) ==
    LET user == get_user(table, username)
        access_token == create_access_token(username, None, t)
    IN IF user = None
       THEN [why |-> "no user",
             resp |-> HTTPException(401, "Unknown user", WWWAuthenticate),
             created |-> None]
       ELSE IF ~verify_password(password, user[1].password)
       THEN [why |-> "wrong password", resp |-> InvalidCredentials,
             created |-> None]
       ELSE [why |-> "ok",
             resp |-> [status |-> 200, detail |-> "", headers |-> {},
                       access_token |-> Some(access_token),
                       token_type |-> "bearer", content |-> ""],
             created |-> Some(access_token)]

\* a slip: the password is not checked
login_for_access_token_NoPassword(username, password, table, t) ==
    LET user == get_user(table, username)
        access_token == create_access_token(username, None, t)
    IN IF user = None
       THEN [why |-> "no user", resp |-> InvalidCredentials, created |-> None]
       ELSE [why |-> "ok",
             resp |-> [status |-> 200, detail |-> "", headers |-> {},
                       access_token |-> Some(access_token),
                       token_type |-> "bearer", content |-> ""],
             created |-> Some(access_token)]

\* the handler as a function of the form, the table and the clock:
\* [why, resp, created], created the token create_access_token returned
login_for_access_token(username, password, table, t) ==
    LET user == get_user(table, username)
        access_token == create_access_token(username, None, t)
    IN IF user = None
       THEN [why |-> "no user", resp |-> InvalidCredentials, created |-> None]
       ELSE IF ~verify_password(password, user[1].password)
       THEN [why |-> "wrong password", resp |-> InvalidCredentials,
             created |-> None]
       ELSE [why |-> "ok",
             resp |-> [status |-> 200, detail |-> "", headers |-> {},
                       access_token |-> Some(access_token),
                       token_type |-> "bearer", content |-> ""],
             created |-> Some(access_token)]

Login(r, username, password) ==
    /\ req[r].kind = "idle"
    /\ LET out == login_for_access_token(username, password, db, now)
       IN /\ req' = [req EXCEPT ![r] =
                [IdleRequest EXCEPT !.kind = "login", !.pc = "done",
                    !.username = username, !.password = password,
                    !.why = out.why, !.lookups = 1, !.resp = Some(out.resp)]]
          /\ issued' = IF out.created = None
                       THEN issued
                       ELSE Some([token |-> out.created[1], username |-> username,
                                  t0 |-> now, delta |-> None])
    /\ UNCHANGED <<now, last, db, fwd>>

\* the response has been sent: the slot takes the next request
Retire(r) ==
    /\ req[r].pc = "done"
    /\ req' = [req EXCEPT ![r] = IdleRequest]
    /\ UNCHANGED <<now, issued, last, db, fwd>>

---------------------------------------------------------------------------
(* The management script of mydb.py changes the table under the gateway. *)

insert_user(user_data) ==
    /\ Len(db) < MaxUsers
    /\ db' = Append(db, user_data)
    /\ UNCHANGED <<now, issued, last, req, fwd>>

delete_user(username) ==
    /\ \E i \in 1..Len(db) : db[i].username = username
    /\ LET Keep(rec) == rec.username # username
       IN db' = SelectSeq(db, Keep)
    /\ UNCHANGED <<now, issued, last, req, fwd>>

\* the gateway's clock is observed at the minute marks
Elapse ==
    /\ \E m \in Marks : m * MinuteTicks > now /\ now' = m * MinuteTicks
    /\ UNCHANGED <<issued, last, db, req, fwd>>

Init ==
    /\ now = 0
    /\ issued = None
    /\ last = None
    /\ db = <<[username |-> "alice", password |-> Hash("pw1")]>>
    /\ req = [r \in ReqIds |-> IdleRequest]
    /\ fwd = IdleForward

Next ==
    \/ Elapse
    \/ \E rec \in UserRecords : insert_user(rec)
    \/ \E u \in Usernames : delete_user(u)
    \/ \E r \in ReqIds, a \in AuthHeaders(now), e \in BearerErrorStatuses :
            Guard(r, a, e)
    \/ \E r \in ReqIds, port_set \in BOOLEAN, body_ok \in BOOLEAN :
            Handler(r, port_set, body_ok)
    \/ \E r \in ReqIds, c \in BackendStatuses : BackendResponds(r, c)
    \/ \E r \in ReqIds, exc \in ClientRequestErrors : BackendFails(r, exc)
    \/ \E r \in ReqIds, u \in Usernames, p \in Passwords : Login(r, u, p)
    \/ \E r \in ReqIds : Retire(r)

Spec == Init /\ [][Next]_vars

---------------------------------------------------------------------------
(* One authenticated request in proxy_to_backend (main.py 128-168), in     *)
(* detail: the request built for the backend, the waits of                 *)
(* client.request, each bounded by timeout=30, the chunks of the backend's *)
(* body as they are read and as they are sent to the client.               *)

Methods == {"GET", "POST"}

\* request paths as sequences of characters and percent escapes
Paths == {<<"f">>, <<"a", "%2F", "b">>}

QueryStrings == {"", "k=v"}

Bodies == {"", "bytes"}

\* values of the BACKEND_PORT environment variable
Ports == {BACKEND_URL_PORT, BACKEND_URL_PORT + 1}

\* the headers of the inbound request
RequestHeaders == {<<"host", "gateway">>, <<"authorization", "Bearer">>}

\* the {anypath:path} parameter: the path of the ASGI scope, percent-decoded
PathParam(raw_path) ==
    [i \in DOMAIN raw_path |-> IF raw_path[i] = "%2F" THEN "/" ELSE raw_path[i]]

(* The arguments of client.request (lines 144-151).  backend_url is the    *)
(* f-string of line 134: host "backend", the port written there, anypath;  *)
(* backend_port is read and not used.                                      *)
BackendRequest(method, raw_path, query, headers, body, backend_port) ==
    [method |-> method,
     url |-> [host |-> "backend", port |-> BACKEND_URL_PORT,
              path |-> PathParam(raw_path)],
     params |-> query,
     headers |-> headers,
     content |-> body]

\* the handler runs for an authenticated request and calls client.request
Forward(method, raw_path, query, body, backend_port) ==
    /\ fwd.pc = "idle"
    /\ fwd' = [IdleForward EXCEPT
                  !.pc = "connecting", !.method = method, !.path = raw_path,
                  !.query = query, !.body = body, !.port = backend_port,
                  !.out = Some(BackendRequest(method, raw_path, query,
                                              RequestHeaders, body, backend_port))]
    /\ UNCHANGED <<now, issued, last, db, req>>

\* client.request is waiting on the backend: for the connection, for the
\* response, for the next chunk of a body not yet read to its end
Waiting ==
    \/ fwd.pc \in {"connecting", "waiting"}
    \/ fwd.pc = "reading" /\ fwd.received < fwd.body_len

\* time passes in a wait that has not reached the timeout
Wait ==
    /\ Waiting
    /\ fwd.waited < BACKEND_TIMEOUT
    /\ fwd' = [fwd EXCEPT !.waited = @ + WaitStep]
    /\ UNCHANGED <<now, issued, last, db, req>>

\* a slip: timeout=None, no wait is bounded
Timeout_None ==
    /\ FALSE
    /\ UNCHANGED vars

(* The wait reached timeout=30: httpx raises ConnectTimeout or ReadTimeout *)
(* out of client.request, what was read of the response is dropped and the *)
(* except clause answers.                                                  *)
Timeout ==
    /\ Waiting
    /\ fwd.waited >= BACKEND_TIMEOUT
    /\ LET exc == IF fwd.pc = "connecting" THEN "ConnectTimeout" ELSE "ReadTimeout"
       IN fwd' = [fwd EXCEPT !.pc = "done", !.failure = exc,
                             !.resp = Some(ExceptionResponse(exc))]
    /\ UNCHANGED <<now, issued, last, db, req>>

\* the connection is made and the request is written
Connected ==
    /\ fwd.pc = "connecting"
    /\ fwd.waited < BACKEND_TIMEOUT
    /\ fwd' = [fwd EXCEPT !.pc = "waiting", !.waited = 0]
    /\ UNCHANGED <<now, issued, last, db, req>>

\* the backend's status line and headers arrive; its body has n chunks
ResponseHeaders(status_code, n) ==
    /\ fwd.pc = "waiting"
    /\ fwd.waited < BACKEND_TIMEOUT
    /\ fwd' = [fwd EXCEPT !.pc = "reading", !.waited = 0,
                          !.status = status_code, !.body_len = n]
    /\ UNCHANGED <<now, issued, last, db, req>>

\* client.request reads the next chunk of the body into the response
ReadChunk ==
    /\ fwd.pc = "reading"
    /\ fwd.received < fwd.body_len
    /\ fwd.waited < BACKEND_TIMEOUT
    /\ fwd' = [fwd EXCEPT !.received = @ + 1, !.waited = 0]
    /\ UNCHANGED <<now, issued, last, db, req>>

\* the transport fails while connecting or while reading
TransportFails ==
    /\ Waiting
    /\ fwd.waited < BACKEND_TIMEOUT
    /\ LET exc == IF fwd.pc = "connecting" THEN "ConnectError" ELSE "ReadError"
       IN fwd' = [fwd EXCEPT !.pc = "done", !.failure = exc,
                             !.resp = Some(ExceptionResponse(exc))]
    /\ UNCHANGED <<now, issued, last, db, req>>

(* client.request returns once the whole body is read (it is no streaming  *)
(* call); the handler returns the StreamingResponse over the content read. *)
Return ==
    /\ fwd.pc = "reading"
    /\ fwd.received = fwd.body_len
    /\ fwd' = [fwd EXCEPT !.pc = IF fwd.body_len = 0 THEN "done" ELSE "relaying",
                          !.resp = Some(StreamingResponse(fwd.status, "payload"))]
    /\ UNCHANGED <<now, issued, last, db, req>>

\* the StreamingResponse sends the next chunk of aiter_bytes() to the client
RelayChunk ==
    /\ fwd.pc = "relaying"
    /\ fwd.relayed < fwd.received
    /\ fwd' = [fwd EXCEPT !.relayed = @ + 1,
                          !.pc = IF fwd.relayed + 1 = fwd.body_len
                                 THEN "done" ELSE "relaying"]
    /\ UNCHANGED <<now, issued, last, db, req>>

\* the response is complete: the next request
Finish ==
    /\ fwd.pc = "done"
    /\ fwd' = IdleForward
    /\ UNCHANGED <<now, issued, last, db, req>>

ForwardInit ==
    /\ now = 0
    /\ issued = None
    /\ last = None
    /\ db = <<[username |-> "alice", password |-> Hash("pw1")]>>
    /\ req = [r \in ReqIds |-> IdleRequest]
    /\ fwd = IdleForward

ForwardNext ==
    \/ \E m \in Methods, p \in Paths, q \in QueryStrings, b \in Bodies,
          port \in Ports : Forward(m, p, q, b, port)
    \/ Wait
    \/ Timeout
    \/ Connected
    \/ \E c \in BackendStatuses, n \in 0..MaxChunks : ResponseHeaders(c, n)
    \/ ReadChunk
    \/ TransportFails
    \/ Return
    \/ RelayChunk
    \/ Finish

SpecForward == ForwardInit /\ [][ForwardNext]_vars

(* The event loop runs the handler whenever it can go on, the clock of a   *)
(* wait advances and httpx's timer fires, and the client reads what it is  *)
(* sent.  Nothing is assumed of the backend.                               *)
SpecForwardFair ==
    SpecForward /\ WF_vars(Wait \/ Timeout \/ Return \/ RelayChunk)

---------------------------------------------------------------------------
(* Properties of the token service, checked under SpecToken *)

\* the verify_token call of the current instant is of the issued token
VerifiedIssued ==
    /\ issued # None
    /\ last # None
    /\ last[1].token = issued[1].token

\* the lifetime asked of create_access_token, in ticks
RequestedTtl(expires_delta) ==
    IF expires_delta = None
    THEN ACCESS_TOKEN_EXPIRE_MINUTES * MinuteTicks
    ELSE expires_delta[1]

(* C1: round trip.  A token issued for a non-empty username, verified at   *)
(* any time strictly before its expiry, yields exactly that username.      *)
C1_RoundTrip ==
    (/\ VerifiedIssued
     /\ issued[1].username # ""
     /\ now < Expire(issued[1].delta, issued[1].t0))
        => /\ last[1].out.result = Some(issued[1].username)
           /\ ~last[1].out.raised

\* a token issued for alice is verified 29 minutes later and yields alice
C1_Witness ==
    /\ VerifiedIssued
    /\ issued[1].username = "alice"
    /\ issued[1].delta = None
    /\ now >= issued[1].t0 + (ACCESS_TOKEN_EXPIRE_MINUTES - 1) * MinuteTicks
    /\ now < Expire(issued[1].delta, issued[1].t0)
    /\ last[1].out.result = Some("alice")

(* C2: acceptance window.  A token issued at t0 with lifetime ttl (the     *)
(* default when none is given) is accepted by verify_token at time now     *)
(* exactly when t0 + ttl is strictly greater than now.                     *)
C2_AcceptanceWindow ==
    (/\ VerifiedIssued
     /\ issued[1].username # ""
     /\ RequestedTtl(issued[1].delta) > 0)
        => (last[1].out.result # None
              <=> issued[1].t0 + RequestedTtl(issued[1].delta) > now)

(* C3: a token issued with a lifetime of zero or with an expiry already    *)
(* past is rejected at every verification time at or after issuance.       *)
C3_ZeroTtlRejected ==
    (/\ VerifiedIssued
     /\ issued[1].delta # None
     /\ RequestedTtl(issued[1].delta) <= 0)
        => last[1].out.result = None

(* C4 as stated: any change to the signature segment or to the encoded     *)
(* claims of the issued token makes verify_token return no subject.        *)
C4_AnyChangeRejected ==
    (/\ issued # None
     /\ last # None
     /\ last[1].token # issued[1].token
     /\ \/ /\ last[1].token.sig # issued[1].token.sig
           /\ last[1].token.hdr = issued[1].token.hdr
           /\ last[1].token.claims = issued[1].token.claims
        \/ /\ last[1].token.sig = issued[1].token.sig
           /\ last[1].token.claims # issued[1].token.claims)
        => last[1].out.result = None

(* C4 as amended: a token whose decoded signature bytes differ from the    *)
(* HMAC of its header and claims under the configured secret never         *)
(* verifies, whatever its claims; this covers every change to the claims   *)
(* and every change to the signature segment that changes what it decodes  *)
(* to.                                                                     *)
C4_TamperRejected ==
    (/\ last # None
     /\ B64UrlDecode(last[1].token.sig) #
            Hmac(SECRET_KEY, ALGORITHM, <<last[1].token.hdr, last[1].token.claims>>))
        => last[1].out.result = None

\* the issued token, its subject replaced and its signature kept, unexpired,
\* is rejected
C4_Witness ==
    /\ issued # None
    /\ last # None
    /\ issued[1].username = "alice"
    /\ last[1].token = [issued[1].token EXCEPT !.claims.sub = Str("bob")]
    /\ now < Expire(issued[1].delta, issued[1].t0)
    /\ last[1].out.result = None

\* the token of a verify_token call carries the HMAC of its header and
\* claims under the configured secret, and the configured algorithm
ValidlySigned(token) ==
    /\ token.hdr = ALGORITHM
    /\ B64UrlDecode(token.sig) =
            Hmac(SECRET_KEY, ALGORITHM, <<token.hdr, token.claims>>)

\* verify_token returned without a subject
Rejected(call) == ~call.out.raised /\ call.out.reason # "ok"

(* C14: verify_token never raises.  For every input token string (empty,   *)
(* not three segments, undecodable, wrong algorithm, claims of the wrong   *)
(* type, bad signature, expired, missing subject) the call returns; no     *)
(* exception leaves it.                                                    *)
C14_NeverRaises == last # None => ~last[1].out.raised

\* the rejection tags of TokenService.verify
ReasonTags == {"BadSignature", "Expired", "MalformedClaims"}

\* the tag of a logged reason
ReasonTag(reason) ==
    IF reason \in {"JWTError: Not enough segments", "JWTError: alg not allowed",
                   "JWTError: Signature verification failed"}
    THEN "BadSignature"
    ELSE IF reason = "ExpiredSignatureError" THEN "Expired"
    ELSE "MalformedClaims"

\* the first check a token fails at time t, in the order signature, expiry,
\* subject and claim types
FirstFailing(token, t) ==
    IF ~ValidlySigned(token) THEN "BadSignature"
    ELSE IF token.claims.exp.kind = "int"
            /\ token.claims.exp.n < ToEpochSeconds(t)
         THEN "Expired"
    ELSE "MalformedClaims"

(* C15 as stated: every rejection returned by verify_token carries one     *)
(* reason tag out of BadSignature, Expired, MalformedClaims, so a caller   *)
(* can tell them apart: two rejections with different tags are different   *)
(* returned values.                                                        *)
C15_ReasonsTold ==
    [][(/\ last # None
        /\ last' # None
        /\ Rejected(last[1])
        /\ Rejected(last'[1])
        /\ ReasonTag(last[1].out.reason) # ReasonTag(last'[1].out.reason))
            => last'[1].out.result # last[1].out.result]_vars

(* C15 as amended: every rejection of verify_token returns the same value  *)
(* None; the reason is only logged, and the logged reason is that of the   *)
(* first failing check in the order signature, expiry, subject.            *)
C15_ReasonsLogged ==
    [][(/\ last # None
        /\ last' # None
        /\ Rejected(last[1])
        /\ Rejected(last'[1]))
            => /\ last'[1].out.result = None
               /\ last'[1].out.result = last[1].out.result
               /\ ReasonTag(last'[1].out.reason) \in ReasonTags
               /\ ReasonTag(last'[1].out.reason)
                      = FirstFailing(last'[1].token, now')]_vars

\* a token forged under another key whose exp is past is rejected, and the
\* logged reason is the signature, not the expiry
C15_Witness ==
    /\ last # None
    /\ Rejected(last[1])
    /\ ~ValidlySigned(last[1].token)
    /\ last[1].token.claims.exp.kind = "int"
    /\ last[1].token.claims.exp.n < ToEpochSeconds(now)
    /\ ReasonTag(last[1].out.reason) = "BadSignature"
    /\ last[1].out.result = None

(* C16: a token with a valid signature and a future expiry whose sub is    *)
(* missing or empty is rejected by verify_token (no subject is returned);  *)
(* the guard answers 401 for it and looks up no user, so nothing is        *)
(* forwarded.                                                              *)
C16_EmptySubjectRejected ==
    (/\ last # None
     /\ ValidlySigned(last[1].token)
     /\ last[1].token.claims.exp.kind = "int"
     /\ last[1].token.claims.exp.n > ToEpochSeconds(now)
     /\ last[1].token.claims.sub \in {Absent, Str("")})
        => /\ last[1].out.result = None
           /\ ~last[1].out.raised
           /\ last[1].guard.resp =
                  Some(HTTPException(401, "Invalid authentication credentials",
                                     WWWAuthenticate))
           /\ last[1].guard.principal = None
           /\ last[1].guard.lookups = 0

\* a validly signed, unexpired token with the empty subject got the 401
C16_Witness ==
    /\ last # None
    /\ ValidlySigned(last[1].token)
    /\ last[1].token.claims.exp.kind = "int"
    /\ last[1].token.claims.exp.n > ToEpochSeconds(now)
    /\ last[1].token.claims.sub = Str("")
    /\ last[1].guard.resp # None
    /\ last[1].guard.resp[1].status = 401

(* C17: issuance invariant.  For every create_access_token call, with any  *)
(* expires_delta (None, zero, positive, negative), the token's expiresAt   *)
(* is the issuance time plus the requested lifetime (the default when none *)
(* is given), in whole seconds, and is strictly later than the issuance    *)
(* time.                                                                   *)
C17_IssuanceInvariant ==
    issued # None
        => /\ issued[1].token.claims.exp =
                  Num(ToEpochSeconds(issued[1].t0 + RequestedTtl(issued[1].delta)))
           /\ issued[1].token.claims.exp.n * SubSec > issued[1].t0

(* C19: non-leaking rejections.  Two guard calls whose tokens verify_token *)
(* rejects for different internal reasons (bad signature, expired,         *)
(* malformed or missing subject) get identical responses: the same 401,    *)
(* the same body, the same headers.                                        *)
C19_RejectionsAlike ==
    [][(/\ last # None
        /\ last' # None
        /\ Rejected(last[1])
        /\ Rejected(last'[1])
        /\ last'[1].out.reason # last[1].out.reason)
            => /\ last'[1].guard.resp = last[1].guard.resp
               /\ last'[1].guard.resp =
                      Some(HTTPException(401, "Invalid authentication credentials",
                                         WWWAuthenticate))]_vars

\* a validly signed token without a subject got the generic 401
C19_Witness ==
    /\ last # None
    /\ Rejected(last[1])
    /\ last[1].out.reason = "'sub' claim is missing"
    /\ last[1].guard.why = "'sub' claim is missing"
    /\ last[1].guard.resp # None
    /\ last[1].guard.resp[1].detail = "Invalid authentication credentials"

---------------------------------------------------------------------------
(* Properties of the gateway, checked under Spec *)

\* the guard answered the request itself: no principal, and a response
GuardRejected(q) ==
    /\ q.kind = "proxy"
    /\ q.principal = None
    /\ q.resp # None
    /\ q.failure = ""

Status(q) == q.resp[1].status

(* C5: authentication precedes forwarding.  A backend request is made for  *)
(* a catch-all request only after get_current_user returned a user record  *)
(* for that request; a request the guard rejected has made no backend      *)
(* request and, being done, makes none; no request is both rejected and    *)
(* forwarded.                                                              *)
C5_AuthBeforeForward ==
    \A r \in ReqIds :
        /\ req[r].backend_calls > 0 =>
              /\ req[r].kind = "proxy"
              /\ req[r].principal # None
              /\ req[r].verified = Some(req[r].principal[1].username)
              /\ ~GuardRejected(req[r])
        /\ req[r].pc \in {"handler", "awaiting"} => req[r].principal # None
        /\ GuardRejected(req[r]) =>
              /\ req[r].backend_calls = 0
              /\ req[r].pc = "done"
              /\ Status(req[r]) \in {401, 403, 404}

\* a request was authenticated and forwarded while another was rejected
C5_Witness ==
    \E r1, r2 \in ReqIds :
        /\ req[r1].backend_calls = 1
        /\ req[r1].principal # None
        /\ GuardRejected(req[r2])
        /\ Status(req[r2]) = 404

C7_NoBearerUnauthenticated ==
    \A r \in ReqIds :
        (req[r].kind = "proxy" /\ req[r].auth \in {"absent", "malformed"})
          => /\ req[r].pc = "done"
             /\ Status(req[r]) = 401
             /\ req[r].verify_calls = 0
             /\ req[r].lookups = 0
             /\ req[r].backend_calls = 0

(* C8: enumeration resistance.  A login with a username absent from the    *)
(* store and a login with an existing username and a wrong password get    *)
(* the same response: status 401, body and headers.                        *)
C8_EnumerationResistance ==
    \A r1, r2 \in ReqIds :
        (/\ req[r1].kind = "login"
         /\ req[r2].kind = "login"
         /\ req[r1].why = "no user"
         /\ req[r2].why = "wrong password")
          => /\ req[r1].resp = req[r2].resp
             /\ Status(req[r1]) = 401

\* both rejections have been answered
C8_Witness ==
    \E r1, r2 \in ReqIds :
        /\ req[r1].kind = "login"
        /\ req[r2].kind = "login"
        /\ req[r1].why = "no user"
        /\ req[r2].why = "wrong password"
        /\ req[r1].username # req[r2].username

(* C9: at the step that handles a login, a token is issued if and only if  *)
(* the submitted username is in the store and the submitted password       *)
(* verifies against that record's hash; then the response is 200 with      *)
(* access_token and token_type "bearer" and the token's subject is the     *)
(* submitted username; otherwise no token is created.                      *)
C9_LoginIssues ==
    [][\A r \in ReqIds :
        (req[r].kind = "idle" /\ req'[r].kind = "login")
          => LET q == req'[r]
                 user == get_user(db, q.username)
                 good == /\ user # None
                         /\ user[1].password = Hash(q.password)
             IN /\ q.resp # None
                /\ (q.resp[1].access_token # None) <=> good
                /\ good =>
                      /\ q.resp[1].status = 200
                      /\ q.resp[1].token_type = "bearer"
                      /\ q.resp[1].access_token[1].claims.sub = Str(q.username)
                      /\ issued' # None
                      /\ issued'[1].token = q.resp[1].access_token[1]
                      /\ verify_token(q.resp[1].access_token[1], now).result
                            = Some(q.username)
                /\ ~good =>
                      /\ q.resp[1].status = 401
                      /\ issued' = issued]_vars

\* a login succeeded and one was rejected
C9_Witness ==
    \E r1, r2 \in ReqIds :
        /\ req[r1].kind = "login"
        /\ req[r1].resp[1].access_token # None
        /\ req[r1].resp[1].status = 200
        /\ req[r2].kind = "login"
        /\ req[r2].resp[1].access_token = None

\* an authenticated request whose forwarding failed with exc
ForwardFailed(q) ==
    /\ q.kind = "proxy"
    /\ q.principal # None
    /\ q.failure # ""

(* C10 as stated: a failure to establish the connection yields 502, no     *)
(* response within the timeout yields 504, any other failure yields 500,   *)
(* and a connection-establishment failure is never reported as 504 or 500. *)
C10_FailureMapping ==
    \A r \in ReqIds :
        ForwardFailed(req[r]) =>
            /\ WhileConnecting(req[r].failure) => Status(req[r]) = 502
            /\ (TimedOut(req[r].failure) /\ ~WhileConnecting(req[r].failure))
                    => Status(req[r]) = 504
            /\ (~TimedOut(req[r].failure) /\ ~WhileConnecting(req[r].failure))
                    => Status(req[r]) = 500

\* failures of the transport to the backend, while connecting or after
TransportFailure(exc) ==
    exc \in {"ConnectError", "ConnectTimeout", "ReadTimeout", "ReadError"}

(* C10 as amended: a timeout, while connecting or while waiting for the    *)
(* response, yields 504; any other failure of the transport to the         *)
(* backend, while establishing the connection or after it, yields 502; any *)
(* other failure yields 500.  Each failure has one status, and a           *)
(* connection-establishment failure is never reported as 500.              *)
C10_ExceptMapping ==
    \A r \in ReqIds :
        ForwardFailed(req[r]) =>
            /\ req[r].pc = "done"
            /\ Status(req[r]) \in {502, 504, 500}
            /\ TimedOut(req[r].failure) => Status(req[r]) = 504
            /\ (TransportFailure(req[r].failure) /\ ~TimedOut(req[r].failure))
                    => Status(req[r]) = 502
            /\ ~TransportFailure(req[r].failure) => Status(req[r]) = 500
            /\ WhileConnecting(req[r].failure) => Status(req[r]) # 500

\* a connect timeout was answered 504 and a refused connection 502
C10_Witness ==
    \E r1, r2 \in ReqIds :
        /\ ForwardFailed(req[r1])
        /\ req[r1].failure = "ConnectTimeout"
        /\ Status(req[r1]) = 504
        /\ ForwardFailed(req[r2])
        /\ req[r2].failure = "ConnectError"
        /\ Status(req[r2]) = 502

(* C13: no retries.  At most one backend request is made for one inbound   *)
(* request, also when the attempt fails: a failed attempt ends the request *)
(* with the gateway's error response.                                      *)
C13_SingleAttempt ==
    \A r \in ReqIds :
        /\ req[r].backend_calls <= 1
        /\ req[r].failure # ""
                => /\ req[r].pc = "done"
                   /\ req[r].resp # None
        /\ req[r].failure \in ClientRequestErrors => req[r].backend_calls = 1

\* the one attempt failed to connect and the request ended with the 502
C13_Witness ==
    \E r \in ReqIds :
        /\ req[r].failure = "ConnectError"
        /\ req[r].backend_calls = 1
        /\ req[r].pc = "done"
        /\ Status(req[r]) = 502

(* C20: request independence.  A step of one request leaves every other    *)
(* request, the user store and the clock as they were; the guard and the   *)
(* forwarder write no token; and what the step gives its request is a      *)
(* function of that request's own input, the user store and the time, so   *)
(* the request gets the outcome it would get alone.                        *)
C20_Independence ==
    [][\A r \in ReqIds :
        req'[r] # req[r]
            => /\ \A o \in ReqIds \ {r} : req'[o] = req[o]
               /\ db' = db
               /\ now' = now
               /\ last' = last
               /\ req'[r].kind = "proxy" => issued' = issued
               /\ (req[r].kind = "idle" /\ req'[r].kind = "proxy")
                    => req'[r].principal =
                          IF req'[r].verified = None
                          THEN None
                          ELSE get_user(db, req'[r].verified[1])
               /\ (req[r].kind = "idle" /\ req'[r].kind = "login")
                    => req'[r].resp =
                          Some(login_for_access_token(req'[r].username,
                                   req'[r].password, db, now).resp)
               /\ (req[r].pc = "awaiting" /\ req'[r].failure # "")
                    => req'[r].resp = Some(ExceptionResponse(req'[r].failure))]_vars

\* two requests at once: one was rejected by the guard, the other got the
\* backend's response
C20_Witness ==
    \E r, o \in ReqIds :
        /\ r # o
        /\ GuardRejected(req[r])
        /\ req[o].kind = "proxy"
        /\ req[o].pc = "done"
        /\ req[o].principal # None
        /\ req[o].backend_calls = 1
        /\ req[o].failure = ""
        /\ Status(req[o]) = 200

---------------------------------------------------------------------------
(* Properties of the forwarder, checked under SpecForward and, for         *)
(* liveness, under SpecForwardFair                                         *)

C12_PassThrough ==
    fwd.out # None
        => /\ fwd.out[1].method = fwd.method
           /\ fwd.out[1].url =
                  [host |-> "backend", port |-> fwd.port, path |-> fwd.path]
           /\ fwd.out[1].params = fwd.query
           /\ fwd.out[1].headers = RequestHeaders
           /\ fwd.out[1].content = fwd.body
           /\ (fwd.pc = "done" /\ fwd.failure = "")
                => /\ fwd.resp # None
                   /\ fwd.resp[1].status = fwd.status
                   /\ fwd.relayed = fwd.body_len

(* C18: streaming without full buffering.  The forwarder relays the        *)
(* backend's body incrementally: it never holds the complete body of a     *)
(* response of more than one chunk before the first byte is relayed.       *)
C18_NeverFullyBuffered ==
    ~(/\ fwd.body_len > 1
      /\ fwd.received = fwd.body_len
      /\ fwd.relayed = 0)

===========================================================================
